---- MODULE Spec2Model ----
(***************************************************************************)
(* Verification model of the insurance-aggregator backend:                 *)
(*   - the disaster-relevance matcher and its date comparison              *)
(*     (utils/indian_disaster_verification.py),                            *)
(*   - the verification-report builder and its two feed adapters,          *)
(*   - the claim store and the process-claim request (api.py,              *)
(*     process_claim.py).                                                  *)
(* Three specifications share the module: SpecMatch applies the matcher    *)
(* functions to bounded inputs, SpecVerify runs verify_location_disaster   *)
(* step by step against every behaviour of the two feeds, and Spec runs    *)
(* the HTTP surface over the claim store.                                  *)
(***************************************************************************)
EXTENDS Integers, Sequences, FiniteSets, TLC

VARIABLES
    \* --- SpecMatch: one call of a matcher function ---
    mFn,        \* which function was called ("none" before the first call)
    mNasa,      \* the NASA EONET event of the call
    mRelief,    \* the ReliefWeb disaster of the call
    mPlace,     \* target coordinate
    mDate,      \* target date string
    mRadius,    \* radius_km
    mResult,    \* "True", "False" or "Raise"
    mSub,       \* the two datetimes _is_date_close subtracted in the call
    \* --- SpecVerify: one call of verify_location_disaster ---
    vpc,        \* position inside verify_location_disaster
    vPlace,     \* latitude, longitude
    vDate,      \* date
    vExif,      \* the EXIF DateTime tag of the photo of the claim
    eonetResp,  \* behaviour of the NASA EONET endpoint for this call
    reliefResp, \* behaviour of the ReliefWeb endpoint for this call
    vIdx,       \* index of the event the adapter loop is at
    eonetDisasters,   \* `disasters` of _check_nasa_eonet
    reliefDisasters,  \* `disasters` of _check_reliefweb
    report,     \* verification_report
    vRaised,    \* TRUE when an exception reached the caller
    requestLog, \* outbound HTTP requests issued so far, in order
    inFlight,   \* number of requests issued and not yet answered
    dumps,      \* names of the files the adapters have written
    summaries,  \* results of the calls of generate_insurance_report, in order
    \* --- Spec: claim store and process-claim request ---
    store,      \* the Mongo collection, in insertion order
    rpc,        \* position of the request inside process_claim_by_id / process_claim
    rUrlId,     \* claimid of the URL path
    rBody,      \* request.json
    rClaimId,   \* claim_id handed to process_claim
    rClaim,     \* claim_data, the document find_one returned
    rGps,       \* gps_info extracted from the image
    rStatus,    \* HTTP status of the response (0: none yet)
    rMessage,   \* JSON body of the response
    rProcessed, \* TRUE once the verification ran for this request
    rLocation,  \* location_name, what get_location_name gave
    rReportFor, \* claim whose verification_result and insurance_report this
                \* request computed ("": none)
    rEffects,   \* files written and outbound requests issued for this request
    rFileReq,   \* GET /get-file: the URL requested and the document get_claims
                \* listed it for (listedFor 0: no document)
    rFileBody,  \* GET /get-file: the blob of the response
    \* --- SpecCoherence: one call of generate_claim_report ---
    cpc,        \* position inside generate_claim_report
    cPaths,     \* the text extract_text_from_document gives for each path
    cCosine,    \* cosine similarity of the two different texts
    cTexts,     \* extracted_texts after the empty ones were removed
    cCoherence, \* coherence_result
    cFraud,     \* fraud_detection
    cFiles,     \* report files written
    \* --- SpecThreads: process_claim requests running in two threads ---
    tpc,        \* position of each thread inside process_claim
    tRun,       \* how many requests each thread has taken
    tArgs,      \* what the request of each thread verifies: the place and
                \* date of its claim, and what the feeds answer to it
    tEonet,     \* eonet_disasters of each thread
    tRelief,    \* reliefweb_disasters of each thread
    tResult,    \* verification_result of each thread
    tInsurance, \* insurance_report of each thread
    files       \* the files of the working directory all threads write

matchVars == <<mFn, mNasa, mRelief, mPlace, mDate, mRadius, mResult, mSub>>
verifyVars == <<vpc, vExif, vPlace, vDate, eonetResp, reliefResp, vIdx, eonetDisasters,
                reliefDisasters, report, vRaised, requestLog, inFlight, dumps,
                summaries>>
httpVars == <<store, rpc, rUrlId, rBody, rClaimId, rClaim, rGps, rStatus, rMessage,
              rProcessed, rLocation, rReportFor, rEffects, rFileReq, rFileBody>>
coherVars == <<cpc, cPaths, cCosine, cTexts, cCoherence, cFraud, cFiles>>
threadVars == <<tpc, tRun, tArgs, tEonet, tRelief, tResult, tInsurance, files>>
vars == <<matchVars, verifyVars, httpVars, coherVars, threadVars>>

(***************************************************************************)
(* Bounds of the model and constants of the program                        *)
(***************************************************************************)
\* resolution of a day: time is counted in units of 1/UnitsPerDay day
UnitsPerDay == 2
\* event timestamps range over TargetDay +- MaxDayOffset days
MaxDayOffset == 32
\* the one non-zero UTC offset of the model, in time units
TzPlus == 1
\* days_threshold=30 of _is_date_close
DaysThresholdDefault == 30
\* radius_km=50 of verify_location_disaster
RadiusDefault == 50

Abs(x) == IF x < 0 THEN -x ELSE x

(***************************************************************************)
(* Coordinates.  haversine_distance is tabulated for four coordinates:     *)
(* Mumbai (19.0760, 72.8777), Thane (19.2183, 72.9781), Kota (25.78,       *)
(* 76.62) and Origin (0, 0); each value is 6371 * c rounded up to a whole  *)
(* kilometre, so that distance <= radius_km is exact for whole radii.      *)
(***************************************************************************)
Places == {"Mumbai", "Thane", "Kota", "Origin"}

Radii == {1, RadiusDefault, 1000}

PairKm(p, q) ==
    CASE {p, q} = {"Mumbai", "Thane"} -> 20
      [] {p, q} = {"Mumbai", "Kota"} -> 839
      [] {p, q} = {"Mumbai", "Origin"} -> 8212
      [] {p, q} = {"Thane", "Kota"} -> 820
      [] {p, q} = {"Thane", "Origin"} -> 8224
      [] {p, q} = {"Kota", "Origin"} -> 8671

haversine_distance(p, q) == IF p = q THEN 0 ELSE PairKm(p, q)

(***************************************************************************)
(* Date strings.  kind "none" is None, "bad" is a string fromisoformat     *)
(* rejects (such as the EXIF layout 'YYYY:MM:DD HH:MM:SS'), "iso" is an    *)
(* ISO-8601 date-time with wall-clock `wall` (time units) and zone `tz`:   *)
(* "naive" (no offset), "Z" (the suffix Z), "utc" (+00:00) or "plus" (the    *)
(* offset TzPlus).                                                         *)
(***************************************************************************)
DateNone == [kind |-> "none", wall |-> 0, tz |-> "naive"]
DateBad == [kind |-> "bad", wall |-> 0, tz |-> "naive"]
IsoDate(w, z) == [kind |-> "iso", wall |-> w, tz |-> z]

TargetDay == MaxDayOffset
TargetWalls == {TargetDay * UnitsPerDay + 1}
EventWalls == 0 .. (2 * MaxDayOffset * UnitsPerDay + 1)

TargetDates == {DateNone, DateBad}
                 \cup {IsoDate(w, z) : w \in TargetWalls, z \in {"naive", "utc", "plus"}}
EventDates == {DateNone, DateBad}
                 \cup {IsoDate(w, z) : w \in EventWalls, z \in {"naive", "Z", "plus"}}

\* event_date.replace("Z", "+00:00")
ReplaceZ(s) == IF s.kind = "iso" /\ s.tz = "Z" THEN [s EXCEPT !.tz = "utc"] ELSE s

\* datetime.fromisoformat: ok = FALSE stands for the exception it raises
fromisoformat(s) ==
    IF s.kind = "iso" /\ s.tz # "Z"
    THEN [ok |-> TRUE, wall |-> s.wall, tz |-> s.tz]
    ELSE [ok |-> FALSE, wall |-> 0, tz |-> "naive"]

\* utcoffset() of an aware datetime, in time units
UtcOffset(z) == IF z = "plus" THEN TzPlus ELSE 0

\* datetime.__sub__: wall-clock difference when both are naive or share the
\* zone, difference of instants when both are aware, TypeError when mixed
DatetimeSub(a, b) ==
    IF a.tz = b.tz THEN [ok |-> TRUE, units |-> a.wall - b.wall]
    ELSE IF a.tz = "naive" \/ b.tz = "naive" THEN [ok |-> FALSE, units |-> 0]
    ELSE [ok |-> TRUE, units |-> (a.wall - UtcOffset(a.tz)) - (b.wall - UtcOffset(b.tz))]

\* timedelta.days: the floor of the difference in whole days
TimedeltaDays(units) == units \div UnitsPerDay

\* a replace(tzinfo=...) that converts between zones as astimezone does
ReplaceTzinfoConverting(dt, tzinfo) ==
    IF dt.tz = "naive" \/ tzinfo = "naive"
    THEN [dt EXCEPT !.tz = tzinfo]
    ELSE [dt EXCEPT !.tz = tzinfo, !.wall = dt.wall - UtcOffset(dt.tz) + UtcOffset(tzinfo)]

\* datetime.replace(tzinfo=...): the wall-clock fields stay, the zone is set
ReplaceTzinfo(dt, tzinfo) == [dt EXCEPT !.tz = tzinfo]

NoDatetime == [ok |-> FALSE, wall |-> 0, tz |-> "naive"]
NoOperands == [ok |-> FALSE, event |-> NoDatetime, target |-> NoDatetime]

\* SubtractionOperands that gives the zone of the aware datetime to the
\* naive one, whichever of the two that is
SubtractionOperandsNaiveCoerced(event_date, target_date) ==
    IF event_date.kind = "none" THEN NoOperands
    ELSE LET e == fromisoformat(ReplaceZ(event_date))
             t == fromisoformat(target_date)
         IN  IF ~e.ok \/ ~t.ok THEN NoOperands
             ELSE IF e.tz = "naive"
                  THEN [ok |-> TRUE, event |-> ReplaceTzinfo(e, t.tz), target |-> t]
             ELSE IF t.tz = "naive"
                  THEN [ok |-> TRUE, event |-> e, target |-> ReplaceTzinfo(t, e.tz)]
             ELSE [ok |-> TRUE, event |-> e, target |-> t]

\* event_datetime and target_datetime as line 271 subtracts them; ok = FALSE
\* when an exception ends the try block before that line
SubtractionOperands(event_date, target_date) ==
    IF event_date.kind = "none" THEN NoOperands
    ELSE LET e == fromisoformat(ReplaceZ(event_date))
             t == fromisoformat(target_date)
         IN  IF ~e.ok \/ ~t.ok THEN NoOperands
             ELSE [ok |-> TRUE, event |-> e, target |-> ReplaceTzinfo(t, e.tz)]

\* DateCloseTry without the replace(tzinfo=...) of the target
DateCloseTryNoCoerce(event_date, target_date, days_threshold) ==
    IF event_date.kind = "none" THEN "AttributeError"
    ELSE LET e == fromisoformat(ReplaceZ(event_date))
             t == fromisoformat(target_date)
         IN  IF ~e.ok \/ ~t.ok THEN "ValueError"
             ELSE LET d == DatetimeSub(e, t)
                  IN  IF ~d.ok THEN "TypeError"
                      ELSE IF Abs(TimedeltaDays(d.units)) <= days_threshold
                           THEN "True" ELSE "False"

\* the try block of _is_date_close: "True" or "False" when it returns, else
\* the exception it ends in (None.replace, fromisoformat on a bad string or
\* on None, the subtraction of a naive and an aware datetime)
DateCloseTry(event_date, target_date, days_threshold) ==
    IF event_date.kind = "none" THEN "AttributeError"
    ELSE LET e == fromisoformat(ReplaceZ(event_date))
             t == fromisoformat(target_date)
         IN  IF ~e.ok THEN "ValueError"
             ELSE IF ~t.ok
                  THEN (IF target_date.kind = "none" THEN "TypeError" ELSE "ValueError")
             ELSE LET operands == SubtractionOperands(event_date, target_date)
                      d == DatetimeSub(operands.event, operands.target)
                  IN  IF ~d.ok THEN "TypeError"
                      ELSE IF Abs(TimedeltaDays(d.units)) <= days_threshold
                           THEN "True" ELSE "False"

\* IsDateClose with an except clause that fails open
IsDateCloseFailOpen(event_date, target_date, days_threshold) ==
    DateCloseTry(event_date, target_date, days_threshold) # "False"

\* _is_date_close: `except Exception` turns every exception into False
IsDateClose(event_date, target_date, days_threshold) ==
    DateCloseTry(event_date, target_date, days_threshold) = "True"

(***************************************************************************)
(* Feed events.                                                            *)
(* A NASA EONET event: geometry "none" (key absent or an empty list) or    *)
(* "entry" (a first geometry entry); that entry's coordinates are "absent" *)
(* (no coordinates key), "polygon" (a nested list, as EONET gives for a    *)
(* Polygon geometry: indexing and radians() fail on it) or a place (a      *)
(* [lon, lat] point); date is the entry's date; url tells whether          *)
(* sources[0].url is present; category is categories[0].title or "absent". *)
(* A ReliefWeb disaster: country "absent" (no country key), "empty" (an    *)
(* empty list) or "entry"; the first country's location is "absent" (no    *)
(* key, or an empty mapping), "partial" (a mapping without lat or lon) or  *)
(* a place; date is fields.date.created; type is fields.type[0].name or    *)
(* "absent".                                                               *)
(***************************************************************************)
NasaEvent(g, c, d, u, k) ==
    [geometry |-> g, coordinates |-> c, date |-> d, url |-> u, category |-> k]

ReliefEvent(c, l, d, k) == [country |-> c, location |-> l, date |-> d, type |-> k]

NasaCoordinateForms == {"absent", "polygon"} \cup Places

ReliefLocationForms == {"absent", "partial"} \cup Places

\* IsEventRelevant without the distance test
IsEventRelevantDateOnly(event, place, target_date, radius_km) ==
    IF event.geometry = "none" THEN "False"
    ELSE IF event.coordinates = "polygon" THEN "Raise"
    ELSE IF IsDateClose(event.date, target_date, DaysThresholdDefault)
         THEN "True" ELSE "False"

\* _is_event_relevant: "Raise" stands for an exception leaving the function
IsEventRelevant(event, place, target_date, radius_km) ==
    IF event.geometry = "none" THEN "False"
    ELSE IF event.coordinates = "polygon" THEN "Raise"
    ELSE LET event_place == IF event.coordinates = "absent" THEN "Origin"
                            ELSE event.coordinates
             distance == haversine_distance(place, event_place)
         IN  IF distance <= radius_km
                /\ IsDateClose(event.date, target_date, DaysThresholdDefault)
             THEN "True" ELSE "False"

\* _is_reliefweb_event_relevant
IsReliefwebEventRelevant(disaster, place, target_date, radius_km) ==
    IF disaster.country = "empty" THEN "Raise"
    ELSE IF disaster.country = "absent" \/ disaster.location = "absent" THEN "False"
    ELSE IF disaster.location = "partial" THEN "Raise"
    ELSE LET distance == haversine_distance(place, disaster.location)
         IN  IF distance <= radius_km
                /\ IsDateClose(disaster.date, target_date, DaysThresholdDefault)
             THEN "True" ELSE "False"

(***************************************************************************)
(* verify_location_disaster and its two feed adapters                      *)
(***************************************************************************)
\* longest feed payload of the model
MaxEvents == 2

\* the dict _check_nasa_eonet appends for an accepted event
NasaEntry(event) ==
    [source |-> "NASA EONET",
     type |-> IF event.category = "absent" THEN "Unknown" ELSE event.category,
     date |-> event.date,
     where |-> event.coordinates]

\* the dict _check_reliefweb appends for an accepted disaster
ReliefEntry(disaster) ==
    [source |-> "ReliefWeb",
     type |-> IF disaster.type = "absent" THEN "Unknown" ELSE disaster.type,
     date |-> disaster.date,
     where |-> disaster.location]

\* one pass of the loop body of _check_nasa_eonet; exc: the exception that
\* left the body (the matcher failed, or .get("url") gave None and .replace
\* failed on it), "none" when the body ran to its end
NasaLoopBody(disasters, event, place, date, radius_km) ==
    LET r == IsEventRelevant(event, place, date, radius_km)
    IN  IF r = "Raise" THEN [disasters |-> disasters, exc |-> "TypeError"]
        ELSE IF r = "False" THEN [disasters |-> disasters, exc |-> "none"]
        ELSE IF ~event.url THEN [disasters |-> disasters, exc |-> "TypeError"]
        ELSE [disasters |-> Append(disasters, NasaEntry(event)), exc |-> "none"]

\* one pass of the loop body of _check_reliefweb, after the detail request
\* of the item answered
ReliefLoopBody(disasters, disaster, place, date, radius_km) ==
    LET r == IsReliefwebEventRelevant(disaster, place, date, radius_km)
    IN  IF r = "Raise" THEN [disasters |-> disasters, exc |-> "TypeError"]
        ELSE IF r = "False" THEN [disasters |-> disasters, exc |-> "none"]
        ELSE [disasters |-> Append(disasters, ReliefEntry(disaster)), exc |-> "none"]

\* a sequence without the later copies of its entries
RECURSIVE Deduplicated(_)
Deduplicated(seq) ==
    IF seq = <<>> THEN <<>>
    ELSE LET front == Deduplicated(SubSeq(seq, 1, Len(seq) - 1))
             last == seq[Len(seq)]
         IN  IF \E i \in 1 .. Len(front) : front[i] = last
             THEN front ELSE Append(front, last)

\* CombineDisasters that also deduplicates
CombineDeduplicated(eonet, relief) == Deduplicated(eonet \o relief)

\* all_disasters = eonet_disasters + reliefweb_disasters
CombineDisasters(eonet, relief) == eonet \o relief

\* the report verify_location_disaster starts from
EmptyReport(place, date) ==
    [location |-> place, date |-> date, disaster_occurred |-> FALSE, disasters |-> <<>>]

\* FillReport that sets the flag whatever all_disasters holds
FillReportAlways(rep, all_disasters) ==
    [rep EXCEPT !.disaster_occurred = TRUE, !.disasters = all_disasters]

\* if all_disasters: ... ; return verification_report
FillReport(rep, all_disasters) ==
    IF all_disasters # <<>>
    THEN [rep EXCEPT !.disaster_occurred = TRUE, !.disasters = all_disasters]
    ELSE rep

(***************************************************************************)
(* generate_insurance_report.  list(set(...)) gives the distinct sources   *)
(* in an order that depends on the interpreter's string hashing, so the    *)
(* function is modelled by the set of values it can return.                *)
(***************************************************************************)
\* every order in which the members of S can be listed
RECURSIVE ListsOfSet(_)
ListsOfSet(S) ==
    IF S = {} THEN {<<>>}
    ELSE UNION {{<<x>> \o l : l \in ListsOfSet(S \ {x})} : x \in S}

\* DisasterTypes that drops the later copies of a type
DisasterTypesDistinct(disasters) ==
    Deduplicated([i \in 1 .. Len(disasters) |-> disasters[i].type])

\* [d["type"] for d in verification_result.get("disasters", [])]
DisasterTypes(disasters) == [i \in 1 .. Len(disasters) |-> disasters[i].type]

\* list(set(d["source"] for d in verification_result.get("disasters", [])))
DisasterSources(disasters) ==
    ListsOfSet({disasters[i].source : i \in 1 .. Len(disasters)})

\* GenerateInsuranceReport that calls every claim verifiable
GenerateInsuranceReportAlways(verification_result) ==
    {[claim_verifiable |-> TRUE,
      disaster_types |-> DisasterTypes(verification_result.disasters),
      disaster_sources |-> l] : l \in DisasterSources(verification_result.disasters)}

GenerateInsuranceReport(verification_result) ==
    {[claim_verifiable |-> verification_result.disaster_occurred,
      disaster_types |-> DisasterTypes(verification_result.disasters),
      disaster_sources |-> l] : l \in DisasterSources(verification_result.disasters)}

(***************************************************************************)
(* Behaviours of the feeds.  mode "transport_error": requests.get raises;  *)
(* "non200": a response whose status_code is not 200, whatever its body    *)
(* holds; "malformed": status 200 with a body response.json() cannot       *)
(* parse; "ok": status 200 with the events.  Each ReliefWeb item carries    *)
(* the behaviour of its own detail request (fetch "ok", or "fail": the     *)
(* request raises or its body has no data[0]) and the disaster that        *)
(* request returns.                                                        *)
(***************************************************************************)
FeedModes == {"transport_error", "non200", "malformed", "ok"}

TargetNoon == IsoDate(TargetDay * UnitsPerDay + 1, "naive")
EventNoonZ == IsoDate(TargetDay * UnitsPerDay + 1, "Z")

VerifyNasaEvents ==
    {NasaEvent("entry", "Thane", EventNoonZ, TRUE, "Floods"),
     NasaEvent("entry", "Kota", EventNoonZ, TRUE, "Wildfires"),
     NasaEvent("none", "absent", DateNone, TRUE, "absent"),
     NasaEvent("entry", "absent", EventNoonZ, TRUE, "absent"),
     NasaEvent("entry", "polygon", EventNoonZ, TRUE, "Floods"),
     NasaEvent("entry", "Mumbai", EventNoonZ, FALSE, "Floods")}

VerifyReliefItems ==
    {[fetch |-> "ok", disaster |-> ReliefEvent("entry", "Mumbai", EventNoonZ, "Flood")],
     [fetch |-> "ok", disaster |-> ReliefEvent("entry", "absent", EventNoonZ, "Flood")],
     [fetch |-> "ok", disaster |-> ReliefEvent("entry", "partial", EventNoonZ, "absent")],
     [fetch |-> "fail", disaster |-> ReliefEvent("entry", "Mumbai", EventNoonZ, "Flood")]}

SeqsUpTo(S, n) == UNION {[1 .. k -> S] : k \in 0 .. n}

EonetResponses ==
    {[mode |-> m, events |-> <<>>] : m \in {"transport_error", "malformed"}}
      \cup {[mode |-> m, events |-> es] :
              m \in {"non200", "ok"}, es \in SeqsUpTo(VerifyNasaEvents, MaxEvents)}

ReliefResponses ==
    {[mode |-> m, items |-> <<>>] : m \in {"transport_error", "malformed"}}
      \cup {[mode |-> m, items |-> is] :
              m \in {"non200", "ok"}, is \in SeqsUpTo(VerifyReliefItems, MaxEvents)}

\* the 0th-IFD DateTime tag of a photo: absent, empty, or a string
ExifTag(kind, value) == [kind |-> kind, value |-> value]
NoExifTag == ExifTag("absent", DateNone)

\* get_timestamp that rewrites the EXIF layout as an ISO-8601 string
GetTimestampIso(tag) ==
    IF tag.kind = "value"
    THEN (IF tag.value = DateBad THEN TargetNoon ELSE tag.value)
    ELSE DateNone

\* get_timestamp: the decoded tag, None when it is absent or empty
GetTimestamp(tag) == IF tag.kind = "value" THEN tag.value ELSE DateNone

\* the place and the photo's DateTime tag of the claims process_claim
\* verifies: DateBad stands for the EXIF layout "YYYY:MM:DD HH:MM:SS"
VerifyTargets ==
    {<<"Mumbai", ExifTag("value", TargetNoon)>>, <<"Origin", ExifTag("value", TargetNoon)>>,
     <<"Mumbai", ExifTag("value", DateBad)>>, <<"Mumbai", NoExifTag>>}

(***************************************************************************)
(* States of the three parts before anything was called                    *)
(***************************************************************************)
NoNasaEvent == NasaEvent("none", "absent", DateNone, FALSE, "absent")
NoReliefEvent == ReliefEvent("absent", "absent", DateNone, "absent")

MatchIdle ==
    /\ mFn = "none"
    /\ mNasa = NoNasaEvent
    /\ mRelief = NoReliefEvent
    /\ mPlace = "Origin"
    /\ mDate = DateNone
    /\ mRadius = 0
    /\ mResult = "None"
    /\ mSub = NoOperands

VerifyIdle ==
    /\ vpc = "idle"
    /\ vExif = NoExifTag
    /\ vPlace = "Origin"
    /\ vDate = DateNone
    /\ eonetResp = [mode |-> "ok", events |-> <<>>]
    /\ reliefResp = [mode |-> "ok", items |-> <<>>]
    /\ vIdx = 0
    /\ eonetDisasters = <<>>
    /\ reliefDisasters = <<>>
    /\ report = EmptyReport("Origin", DateNone)
    /\ vRaised = FALSE
    /\ requestLog = <<>>
    /\ inFlight = 0
    /\ dumps = {}
    /\ summaries = <<>>

(***************************************************************************)
(* SpecMatch: the matcher functions applied to every bounded input         *)
(***************************************************************************)
MatchNasaEvents ==
    {NasaEvent("none", "absent", d, TRUE, "Floods") : d \in {DateNone, EventNoonZ}}
      \cup {NasaEvent("entry", c, d, TRUE, "Floods") :
              c \in NasaCoordinateForms, d \in EventDates}

MatchReliefEvents ==
    {ReliefEvent(c, "absent", EventNoonZ, "Flood") : c \in {"absent", "empty"}}
      \cup {ReliefEvent("entry", l, d, "Flood") :
              l \in ReliefLocationForms, d \in EventDates}

MatchPlaces == {"Mumbai", "Origin"}

CallIsEventRelevant ==
    /\ mFn = "none"
    /\ \E event \in MatchNasaEvents, place \in MatchPlaces,
          date \in TargetDates, radius \in Radii :
          /\ mFn' = "_is_event_relevant"
          /\ mNasa' = event
          /\ mPlace' = place
          /\ mDate' = date
          /\ mRadius' = radius
          /\ mResult' = IsEventRelevant(event, place, date, radius)
    /\ UNCHANGED <<mRelief, mSub, verifyVars, httpVars, coherVars, threadVars>>

CallIsReliefwebEventRelevant ==
    /\ mFn = "none"
    /\ \E disaster \in MatchReliefEvents, place \in MatchPlaces,
          date \in TargetDates, radius \in Radii :
          /\ mFn' = "_is_reliefweb_event_relevant"
          /\ mRelief' = disaster
          /\ mPlace' = place
          /\ mDate' = date
          /\ mRadius' = radius
          /\ mResult' = IsReliefwebEventRelevant(disaster, place, date, radius)
    /\ UNCHANGED <<mNasa, mSub, verifyVars, httpVars, coherVars, threadVars>>

\* a direct call of _is_date_close(event_date, target_date): the event date
\* is kept in mNasa.date
CallIsDateClose ==
    /\ mFn = "none"
    /\ \E event_date \in EventDates, date \in TargetDates :
          /\ mFn' = "_is_date_close"
          /\ mNasa' = NasaEvent("none", "absent", event_date, TRUE, "absent")
          /\ mDate' = date
          /\ mResult' = IF IsDateClose(event_date, date, DaysThresholdDefault)
                        THEN "True" ELSE "False"
          /\ mSub' = SubtractionOperands(event_date, date)
    /\ UNCHANGED <<mRelief, mPlace, mRadius, verifyVars, httpVars, coherVars, threadVars>>

(***************************************************************************)
(* SpecVerify: verify_location_disaster(latitude, longitude, date), with   *)
(* radius_km left at its default as every caller does                      *)
(***************************************************************************)
\* the exception a feed request ends in: requests.get raising, or .json()
\* failing on the body; "none" when it answers
RequestException(mode) ==
    CASE mode = "transport_error" -> "ConnectionError"
      [] mode = "malformed" -> "JSONDecodeError"
      [] OTHER -> "none"

\* a status check that lets every answered request through
StatusIsAny(resp) == resp.mode \in {"ok", "non200"}

\* if response.status_code == 200
StatusIs200(resp) == resp.mode = "ok"

\* an except clause that catches only what the request itself raises
CaughtByAdapterRequestOnly(exc) == exc \in {"ConnectionError", "JSONDecodeError"}

\* an except clause that lets transport errors through
CaughtByAdapterNoTransport(exc) == exc \in {"JSONDecodeError", "TypeError"}

\* `except Exception` of the two adapters: the classes it catches
CaughtByAdapter(exc) == exc \in {"ConnectionError", "JSONDecodeError", "TypeError"}

\* where an adapter goes after a step that ended in exception exc: on with
\* its loop, out through its except clause (returning its disasters so far),
\* or out of verify_location_disaster with the exception
AfterStep(exc, on, out) ==
    IF exc = "none" THEN on ELSE IF CaughtByAdapter(exc) THEN out ELSE "raised"

\* verification_report = {...}, then the call of _check_nasa_eonet
VerifyStart ==
    /\ vpc = "start"
    /\ report' = EmptyReport(vPlace, vDate)
    /\ eonetDisasters' = <<>>
    /\ vpc' = "eonet_request"
    /\ UNCHANGED <<inFlight, vExif, vPlace, vDate, eonetResp, reliefResp, vIdx, reliefDisasters,
                   vRaised, requestLog, dumps, summaries,
                   matchVars, httpVars, coherVars, threadVars>>

\* EonetRequest that goes on to the next feed without awaiting the answer
EonetRequestNoAwait ==
    /\ vpc = "eonet_request"
    /\ requestLog' = Append(requestLog, "eonet")
    /\ inFlight' = inFlight + 1
    /\ vpc' = "relief_request"
    /\ UNCHANGED <<vExif, vPlace, vDate, eonetResp, reliefResp, vIdx, eonetDisasters,
                   reliefDisasters, report, vRaised, dumps, summaries,
                   matchVars, httpVars, coherVars, threadVars>>

\* requests.get(nasa_eonet url) is called: the request is out
EonetRequest ==
    /\ vpc = "eonet_request"
    /\ requestLog' = Append(requestLog, "eonet")
    /\ inFlight' = inFlight + 1
    /\ vpc' = "eonet_await"
    /\ UNCHANGED <<vExif, vPlace, vDate, eonetResp, reliefResp, vIdx, eonetDisasters,
                   reliefDisasters, report, vRaised, dumps, summaries,
                   matchVars, httpVars, coherVars, threadVars>>

\* requests.get returns or raises, then the status check and response.json()
EonetResponse ==
    /\ vpc = "eonet_await"
    /\ inFlight' = inFlight - 1
    /\ vIdx' = 1
    /\ LET exc == RequestException(eonetResp.mode)
           on == IF StatusIs200(eonetResp) THEN "eonet_loop" ELSE "relief_request"
       IN  /\ vpc' = AfterStep(exc, on, "relief_request")
           /\ vRaised' = (vpc' = "raised")
    /\ UNCHANGED <<vExif, vPlace, vDate, eonetResp, reliefResp, eonetDisasters,
                   reliefDisasters, report, requestLog, dumps, summaries,
                   matchVars, httpVars, coherVars, threadVars>>

\* one event of `for event in events`
EonetEvent ==
    /\ vpc = "eonet_loop"
    /\ vIdx <= Len(eonetResp.events)
    /\ LET r == NasaLoopBody(eonetDisasters, eonetResp.events[vIdx], vPlace, vDate,
                             RadiusDefault)
       IN  /\ eonetDisasters' = r.disasters
           /\ vpc' = AfterStep(r.exc, "eonet_loop", "relief_request")
           /\ vIdx' = IF r.exc = "none" THEN vIdx + 1 ELSE vIdx
           /\ vRaised' = (vpc' = "raised")
    /\ UNCHANGED <<inFlight, vExif, vPlace, vDate, eonetResp, reliefResp, reliefDisasters, report,
                   requestLog, dumps, summaries,
                   matchVars, httpVars, coherVars, threadVars>>

\* the loop is over: nasa_eonet_disasters.json is written, disasters returned
EonetDump ==
    /\ vpc = "eonet_loop"
    /\ vIdx > Len(eonetResp.events)
    /\ vpc' = "relief_request"
    /\ dumps' = dumps \cup {"nasa_eonet_disasters.json"}
    /\ UNCHANGED <<inFlight, vExif, vPlace, vDate, eonetResp, reliefResp, vIdx, eonetDisasters,
                   reliefDisasters, report, vRaised, requestLog, summaries,
                   matchVars, httpVars, coherVars, threadVars>>

\* requests.get(reliefweb url) is called: the request is out
ReliefRequest ==
    /\ vpc = "relief_request"
    /\ requestLog' = Append(requestLog, "reliefweb")
    /\ inFlight' = inFlight + 1
    /\ reliefDisasters' = <<>>
    /\ vpc' = "relief_await"
    /\ UNCHANGED <<vExif, vPlace, vDate, eonetResp, reliefResp, vIdx, eonetDisasters, report,
                   vRaised, dumps, summaries, matchVars, httpVars, coherVars, threadVars>>

\* requests.get returns or raises, then the status check and response.json()
ReliefResponse ==
    /\ vpc = "relief_await"
    /\ inFlight' = inFlight - 1
    /\ vIdx' = 1
    /\ LET exc == RequestException(reliefResp.mode)
           on == IF StatusIs200(reliefResp) THEN "relief_loop" ELSE "combine"
       IN  /\ vpc' = AfterStep(exc, on, "combine")
           /\ vRaised' = (vpc' = "raised")
    /\ UNCHANGED <<vExif, vPlace, vDate, eonetResp, reliefResp, eonetDisasters,
                   reliefDisasters, report, requestLog, dumps, summaries,
                   matchVars, httpVars, coherVars, threadVars>>

\* one item of `for disaster in disaster_data`: requests.get(disaster.get("href"))
\* is called
ReliefDetailRequest ==
    /\ vpc = "relief_loop"
    /\ vIdx <= Len(reliefResp.items)
    /\ requestLog' = Append(requestLog, "reliefweb_detail")
    /\ inFlight' = inFlight + 1
    /\ vpc' = "relief_detail_await"
    /\ UNCHANGED <<vExif, vPlace, vDate, eonetResp, reliefResp, vIdx, eonetDisasters,
                   reliefDisasters, report, vRaised, dumps, summaries,
                   matchVars, httpVars, coherVars, threadVars>>

\* the detail request of the item returns or raises, then the matcher
ReliefItem ==
    /\ vpc = "relief_detail_await"
    /\ inFlight' = inFlight - 1
    /\ LET item == reliefResp.items[vIdx]
           r == IF item.fetch = "ok"
                THEN ReliefLoopBody(reliefDisasters, item.disaster, vPlace, vDate,
                                    RadiusDefault)
                ELSE [disasters |-> reliefDisasters, exc |-> "ConnectionError"]
       IN  /\ reliefDisasters' = r.disasters
           /\ vpc' = AfterStep(r.exc, "relief_loop", "combine")
           /\ vIdx' = IF r.exc = "none" THEN vIdx + 1 ELSE vIdx
           /\ vRaised' = (vpc' = "raised")
    /\ UNCHANGED <<vExif, vPlace, vDate, eonetResp, reliefResp, eonetDisasters, report,
                   requestLog, dumps, summaries, matchVars, httpVars, coherVars, threadVars>>

\* the loop is over: reliefweb_disasters.json is written, disasters returned
ReliefDump ==
    /\ vpc = "relief_loop"
    /\ vIdx > Len(reliefResp.items)
    /\ vpc' = "combine"
    /\ dumps' = dumps \cup {"reliefweb_disasters.json"}
    /\ UNCHANGED <<inFlight, vExif, vPlace, vDate, eonetResp, reliefResp, vIdx, eonetDisasters,
                   reliefDisasters, report, vRaised, requestLog, summaries,
                   matchVars, httpVars, coherVars, threadVars>>

\* all_disasters = ..., the report is filled and returned
VerifyReturn ==
    /\ vpc = "combine"
    /\ report' = FillReport(report, CombineDisasters(eonetDisasters, reliefDisasters))
    /\ vpc' = "done"
    /\ UNCHANGED <<inFlight, vExif, vPlace, vDate, eonetResp, reliefResp, vIdx, eonetDisasters,
                   reliefDisasters, vRaised, requestLog, dumps, summaries,
                   matchVars, httpVars, coherVars, threadVars>>

\* most calls of generate_insurance_report on one report
MaxReportCalls == 2

\* GenerateInsurance that takes the disasters out of the report it reads
GenerateInsuranceConsuming ==
    /\ vpc = "done"
    /\ Len(summaries) < MaxReportCalls
    /\ \E insurance_report \in GenerateInsuranceReport(report) :
          summaries' = Append(summaries, insurance_report)
    /\ report' = [report EXCEPT !.disasters = <<>>]
    /\ UNCHANGED <<inFlight, vpc, vExif, vPlace, vDate, eonetResp, reliefResp, vIdx, eonetDisasters,
                   reliefDisasters, vRaised, requestLog, dumps, matchVars, httpVars, coherVars, threadVars>>

\* a call of generate_insurance_report on the report verify_location_disaster
\* returned
GenerateInsurance ==
    /\ vpc = "done"
    /\ Len(summaries) < MaxReportCalls
    /\ \E insurance_report \in GenerateInsuranceReport(report) :
          summaries' = Append(summaries, insurance_report)
    /\ UNCHANGED <<inFlight, vpc, vExif, vPlace, vDate, eonetResp, reliefResp, vIdx, eonetDisasters,
                   reliefDisasters, report, vRaised, requestLog, dumps,
                   matchVars, httpVars, coherVars, threadVars>>

(***************************************************************************)
(* Spec: the claim store and POST /process-claim/<claimid>                 *)
(***************************************************************************)
\* most documents the collection holds
MaxClaims == 2

\* claim numbers a submit can draw; "CLAIM-x" is never drawn
ClaimNumbers == {"CLAIM-a", "CLAIM-b"}
UrlIds == ClaimNumbers \cup {"CLAIM-x"}

\* an uploaded receiptImage by what the EXIF parser finds in it: "empty" is
\* a zero-length upload, "noexif" an image without an EXIF block, "nogps" an
\* image whose EXIF has no GPS tags, "gps" an image with GPS tags;
\* "absent": the form had no receiptImage
ImageKinds == {"empty", "noexif", "nogps", "gps"}

\* request.json: "null" (the body is JSON null), "" (an object without a
\* non-empty claimNumber) or the claimNumber the object carries
Bodies == {"null", ""} \cup UrlIds

\* jsonify(result) of a result that is a string
StrBody(text) == [text |-> text, verification_result |-> "", insurance_report |-> ""]

\* most files of a multi-file field
MaxPhotos == 2

\* a document of the collection: id stands for _id, receiptImage for what
\* the uploaded image holds, beforeIncidentImages for the number of blobs in
\* that list (0: the field is absent)
NoDoc == [id |-> 0, claimNumber |-> "", receiptImage |-> "absent",
          beforeIncidentImages |-> 0]

\* the blob stored under a field (and index) of the document with that id
Blob(id, fieldName, index) == [owner |-> id, field |-> fieldName, index |-> index]
NoBlob == Blob(0, "", 0)

\* index = None of get_file
NoIndex == -1

FileUrl(claimNumber, fieldName, index) ==
    [claimNumber |-> claimNumber, fieldName |-> fieldName, index |-> index]

NoFileReq == [url |-> FileUrl("", "", NoIndex), listedFor |-> 0]

\* get_claims: the file URLs it puts into a document
ListedUrls(document) ==
    (IF document.receiptImage # "absent"
     THEN {FileUrl(document.claimNumber, "receiptImage", NoIndex)} ELSE {})
      \cup {FileUrl(document.claimNumber, "beforeIncidentImages", i) :
              i \in 0 .. (document.beforeIncidentImages - 1)}

HttpIdle ==
    /\ store = <<>>
    /\ rpc = "idle"
    /\ rUrlId = ""
    /\ rBody = ""
    /\ rClaimId = ""
    /\ rClaim = NoDoc
    /\ rGps = FALSE
    /\ rStatus = 0
    /\ rMessage = StrBody("")
    /\ rProcessed = FALSE
    /\ rLocation = ""
    /\ rReportFor = ""
    /\ rEffects = {}
    /\ rFileReq = NoFileReq
    /\ rFileBody = NoBlob

\* the first member of the pair process_claim returns on line 75, as
\* process_claim_by_id hands it to jsonify
ProcessClaimResult(claim) == StrBody("Claim processed successfully")

\* what the lookup of bigdatacloud can do
LookupBehaviours == {"ok", "non200", "transport_error", "malformed"}

\* get_location_name: requests.get and response.json() are not guarded;
\* "Raise" stands for the exception that leaves the function
GetLocationName(lookup) ==
    CASE lookup = "ok" -> "address"
      [] lookup = "non200" -> "Error retrieving location"
      [] OTHER -> "Raise"

\* collection.find_one({"claimNumber": id}): the first match, NoDoc for None
RECURSIVE FindOne(_, _)
FindOne(coll, id) ==
    IF coll = <<>> THEN NoDoc
    ELSE IF Head(coll).claimNumber = id THEN Head(coll)
    ELSE FindOne(Tail(coll), id)

\* claim_id = request.json.get("claimNumber", "") or claimid
RequestClaimId(body, claimid) == IF body # "" THEN body ELSE claimid

\* LookupStatus with the image check made first
LookupStatusImageFirst(claim_data) ==
    IF claim_data.receiptImage \in {"absent", "empty"} THEN 400
    ELSE IF claim_data = NoDoc THEN 404
    ELSE 0

\* the two early returns of process_claim: the status it returns, 0 to go on
LookupStatus(claim_data) ==
    IF claim_data = NoDoc THEN 404
    ELSE IF claim_data.receiptImage \in {"absent", "empty"} THEN 400
    ELSE 0

\* extract_exif_data: "raise" (image.info["exif"] is missing), else whether
\* gps_info is set
ExifOutcome(image) ==
    CASE image = "noexif" -> "raise"
      [] image = "nogps" -> "none"
      [] image = "gps" -> "gps"

\* the status process_claim returns past the GPS branch, taken or not
FinalStatus(gps) == 200

\* submit_form: one document is inserted
SubmitForm ==
    /\ Len(store) < MaxClaims
    /\ \E n \in ClaimNumbers, img \in ImageKinds \cup {"absent"},
          photos \in {0, MaxPhotos} :
          store' = Append(store, [id |-> Len(store) + 1, claimNumber |-> n,
                                  receiptImage |-> img,
                                  beforeIncidentImages |-> photos])
    /\ UNCHANGED <<rFileReq, rFileBody, rEffects, rClaim, rpc, rUrlId, rBody, rClaimId, rGps, rStatus, rMessage, rProcessed,
                   rLocation, rReportFor,
                   matchVars, verifyVars, coherVars, threadVars>>

\* process_claim_by_id up to the call of process_claim
ReceiveProcessClaim ==
    /\ rpc = "idle"
    /\ \E claimid \in UrlIds, body \in Bodies :
          /\ rUrlId' = claimid
          /\ rBody' = body
          /\ IF body = "null"
             THEN /\ rStatus' = 400
                  /\ rMessage' = StrBody("Request body must be a JSON object")
                  /\ rpc' = "done"
                  /\ rClaimId' = ""
             ELSE /\ rClaimId' = RequestClaimId(body, claimid)
                  /\ rpc' = "find"
                  /\ UNCHANGED <<rClaim, rStatus, rMessage>>
    /\ UNCHANGED <<rFileReq, rFileBody, rEffects, rClaim, store, rGps, rProcessed, rLocation, rReportFor,
                   matchVars, verifyVars, coherVars, threadVars>>

\* process_claim: find_one and the two early returns
FindClaim ==
    /\ rpc = "find"
    /\ rClaim' = FindOne(store, rClaimId)
    /\ LET status == LookupStatus(rClaim')
       IN  /\ rStatus' = status
           /\ rMessage' = CASE status = 404 -> StrBody("Claim not found")
                            [] status = 400 -> StrBody("Image not found in the claim data")
                            [] OTHER -> StrBody("")
           /\ rpc' = IF status = 0 THEN "exif" ELSE "done"
    /\ UNCHANGED <<rFileReq, rFileBody, rEffects, store, rUrlId, rBody, rClaimId, rGps, rProcessed, rLocation, rReportFor,
                   matchVars, verifyVars, coherVars, threadVars>>

\* the temp image is written and extract_exif_data reads it
ExtractExif ==
    /\ rpc = "exif"
    /\ LET out == ExifOutcome(rClaim.receiptImage)
       IN  /\ rGps' = (out = "gps")
           /\ rpc' = CASE out = "raise" -> "error"
                       [] out = "none" -> "return"
                       [] out = "gps" -> "geocode"
    /\ rEffects' = rEffects \cup {"temp_image"}
    /\ UNCHANGED <<rFileReq, rFileBody, rClaim, store, rUrlId, rBody, rClaimId, rStatus, rMessage, rProcessed,
                   rLocation, rReportFor,
                   matchVars, verifyVars, coherVars, threadVars>>

\* location_name = get_location_name(lat, lon, complete=True)
Geocode ==
    /\ rpc = "geocode"
    /\ \E lookup \in LookupBehaviours :
          /\ rLocation' = GetLocationName(lookup)
          /\ rpc' = IF rLocation' = "Raise" THEN "error" ELSE "verify"
    /\ rEffects' = rEffects \cup {"geocoder_request"}
    /\ UNCHANGED <<rFileReq, rFileBody, rClaim, store, rUrlId, rBody, rClaimId, rGps, rStatus, rMessage, rProcessed,
                   rReportFor,
                   matchVars, verifyVars, coherVars, threadVars>>

\* verify_location_disaster, generate_insurance_report and the two json dumps
VerifyClaim ==
    /\ rpc = "verify"
    /\ rProcessed' = TRUE
    /\ rReportFor' = rClaim.claimNumber
    /\ rpc' = "crop"
    /\ rEffects' = rEffects \cup {"feed_requests", "disaster_verification.json",
                                  "insurance_report.json"}
    /\ UNCHANGED <<rFileReq, rFileBody, rClaim, store, rUrlId, rBody, rClaimId, rGps, rStatus, rMessage,
                   rLocation,
                   matchVars, verifyVars, coherVars, threadVars>>

\* PlantIdentificationService(), identify_crop, verify_crop_match and the
\* write of crop_result.md: the constructor raises without an API key, and
\* .text fails on the {} default when identify_crop did not succeed
IdentifyCrop ==
    /\ rpc = "crop"
    /\ \E api_key \in BOOLEAN, success \in BOOLEAN :
          /\ rpc' = IF api_key /\ success THEN "return" ELSE "error"
          /\ rEffects' = IF api_key
                         THEN rEffects \cup {"vision_request", "crop_result.md"}
                         ELSE rEffects
    /\ UNCHANGED <<rFileReq, rFileBody, rClaim, store, rUrlId, rBody, rClaimId, rGps, rStatus, rMessage, rProcessed,
                   rLocation, rReportFor,
                   matchVars, verifyVars, coherVars, threadVars>>

\* return "Claim processed successfully", 200
ReturnProcessed ==
    /\ rpc = "return"
    /\ rStatus' = FinalStatus(rGps)
    /\ rMessage' = ProcessClaimResult(rReportFor)
    /\ rpc' = "done"
    /\ UNCHANGED <<rFileReq, rFileBody, rEffects, rClaim, store, rUrlId, rBody, rClaimId, rGps, rProcessed, rLocation, rReportFor,
                   matchVars, verifyVars, coherVars, threadVars>>

\* an exception left process_claim: the server answers 500
ServerError ==
    /\ rpc = "error"
    /\ rStatus' = 500
    /\ rMessage' = StrBody("Internal Server Error")
    /\ rpc' = "done"
    /\ UNCHANGED <<rFileReq, rFileBody, rEffects, rClaim, store, rUrlId, rBody, rClaimId, rGps, rProcessed, rLocation, rReportFor,
                   matchVars, verifyVars, coherVars, threadVars>>

\* get_file(claimNumber, fieldName, index): status, message and blob of the
\* response
GetFile(coll, claimNumber, fieldName, index) ==
    LET document == FindOne(coll, claimNumber)
        length == document.beforeIncidentImages
    IN  IF document = NoDoc
           \/ (fieldName = "receiptImage" /\ document.receiptImage = "absent")
           \/ (fieldName = "beforeIncidentImages" /\ length = 0)
        THEN [status |-> 404, text |-> "File not found", blob |-> NoBlob]
        ELSE IF fieldName = "beforeIncidentImages"
        THEN IF index # NoIndex /\ 0 <= index /\ index < length
             THEN [status |-> 200, text |-> "", blob |-> Blob(document.id, fieldName, index)]
             ELSE [status |-> 404, text |-> "File index out of range", blob |-> NoBlob]
        ELSE [status |-> 200, text |-> "", blob |-> Blob(document.id, fieldName, NoIndex)]

\* the requests of GET /get-file the model makes: every URL get_claims lists
\* for a stored document, and for each stored claim number the list field
\* without an index and with the index one past the last
FileRequests(coll) ==
    UNION {{[url |-> u, listedFor |-> coll[i].id] : u \in ListedUrls(coll[i])}
              \cup {[url |-> FileUrl(coll[i].claimNumber, "beforeIncidentImages", x),
                      listedFor |-> 0] : x \in {NoIndex, coll[i].beforeIncidentImages}} :
           i \in 1 .. Len(coll)}

\* GET /get-file/<claimNumber>/<fieldName>[/<index>]
RequestFile ==
    /\ rpc = "idle"
    /\ \E req \in FileRequests(store) :
          LET response == GetFile(store, req.url.claimNumber, req.url.fieldName,
                                  req.url.index)
          IN  /\ rFileReq' = req
              /\ rStatus' = response.status
              /\ rMessage' = StrBody(response.text)
              /\ rFileBody' = response.blob
    /\ rpc' = "file_done"
    /\ UNCHANGED <<store, rUrlId, rBody, rClaimId, rClaim, rGps, rProcessed, rLocation,
                   rReportFor, rEffects, matchVars, verifyVars, coherVars, threadVars>>

\* the response is sent; the server is ready for the next request
NextRequest ==
    /\ rpc \in {"done", "file_done"}
    /\ rpc' = "idle"
    /\ rUrlId' = ""
    /\ rBody' = ""
    /\ rClaimId' = ""
    /\ rClaim' = NoDoc
    /\ rGps' = FALSE
    /\ rStatus' = 0
    /\ rMessage' = StrBody("")
    /\ rProcessed' = FALSE
    /\ rLocation' = ""
    /\ rReportFor' = ""
    /\ rEffects' = {}
    /\ rFileReq' = NoFileReq
    /\ rFileBody' = NoBlob
    /\ UNCHANGED <<store, matchVars, verifyVars, coherVars, threadVars>>

(***************************************************************************)
(* The three specifications                                                *)
(***************************************************************************)
(***************************************************************************)
(* InsuranceClaimProcessor: coherence of the documents of a claim          *)
(***************************************************************************)
\* similarities are counted in units of 1/SimScale
SimScale == 5

\* most documents of one report
MaxDocuments == 3

\* what extract_text_from_document gives: a text, or "" after an error
ExtractedTexts == {"", "text_a", "text_b"}

RECURSIVE SumOver(_, _)
SumOver(f, S) ==
    IF S = {} THEN 0
    ELSE LET x == CHOOSE y \in S : TRUE IN f[x] + SumOver(f, S \ {x})

\* the keys generate_claim_report reads from a result
CoherenceKeys == {"coherence_score", "consistency_level", "confidence"}
FraudKeys == {"fraud_analysis", "risk_level", "risk_score"}

\* a mapping analyze_text_coherence returns; coherence_score is the fraction
\* num/den, confidence is counted in tenths
CoherenceMapping(num, den, level, score) ==
    [keys |-> CoherenceKeys, coherence_score |-> [num |-> num, den |-> den],
     consistency_level |-> level, confidence |-> score]

\* the empty mapping {}
EmptyMapping ==
    [keys |-> {}, coherence_score |-> [num |-> 0, den |-> 1],
     consistency_level |-> "", confidence |-> 0]

\* coherence_levels, bounds and confidence in tenths, in dictionary order
CoherenceLevels ==
    <<[lower |-> 0, upper |-> 2, level |-> "Very Low", score |-> 1],
      [lower |-> 2, upper |-> 4, level |-> "Low", score |-> 3],
      [lower |-> 4, upper |-> 6, level |-> "Medium", score |-> 5],
      [lower |-> 6, upper |-> 8, level |-> "High", score |-> 7],
      [lower |-> 8, upper |-> 10, level |-> "Very High", score |-> 9]>>

\* cosine_similarity of two document vectors: 1.0 for equal texts
CosineSimilarity(a, b, cosine) == IF a = b THEN SimScale ELSE cosine

\* lower <= avg_similarity < upper, for avg_similarity = total / (SimScale * n)
InLevel(lv, total, n) ==
    lv.lower * SimScale * n <= 10 * total /\ 10 * total < lv.upper * SimScale * n

AnalyzeTextCoherence(documents, cosine) ==
    IF Len(documents) < 2
    THEN CoherenceMapping(1, 1, "High", 9)
    ELSE LET triu == {q \in (1 .. Len(documents)) \X (1 .. Len(documents)) : q[1] < q[2]}
             scores == [q \in triu |-> CosineSimilarity(documents[q[1]], documents[q[2]], cosine)]
             total == SumOver(scores, triu)
             n == Cardinality(triu)
             hits == {k \in 1 .. Len(CoherenceLevels) : InLevel(CoherenceLevels[k], total, n)}
         IN  IF hits = {}
             THEN EmptyMapping
             ELSE LET lv == CoherenceLevels[CHOOSE k \in hits : \A h \in hits : k <= h]
                  IN  CoherenceMapping(total, SimScale * n, lv.level, lv.score)

\* detect_potential_fraud: every return carries the three keys
FraudResults ==
    {[keys |-> FraudKeys, risk_level |-> l] :
        l \in {"Low Risk", "Medium Risk", "High Risk", "Unknown"}}

NoFraud == [keys |-> {}, risk_level |-> ""]

CoherIdle ==
    /\ cpc = "idle"
    /\ cPaths = <<>>
    /\ cCosine = 0
    /\ cTexts = <<>>
    /\ cCoherence = EmptyMapping
    /\ cFraud = NoFraud
    /\ cFiles = {}

\* generate_claim_report: extract the texts and drop the empty ones
ExtractTexts ==
    /\ cpc = "start"
    /\ cTexts' = SelectSeq(cPaths, LAMBDA text : text # "")
    /\ cpc' = "coherence"
    /\ UNCHANGED <<cPaths, cCosine, cCoherence, cFraud, cFiles,
                   matchVars, verifyVars, httpVars, threadVars>>

AnalyzeCoherence ==
    /\ cpc = "coherence"
    /\ cCoherence' = AnalyzeTextCoherence(cTexts, cCosine)
    /\ cpc' = "fraud"
    /\ UNCHANGED <<cPaths, cCosine, cTexts, cFraud, cFiles,
                   matchVars, verifyVars, httpVars, threadVars>>

DetectPotentialFraud ==
    /\ cpc = "fraud"
    /\ cFraud' \in FraudResults
    /\ cpc' = "json"
    /\ UNCHANGED <<cPaths, cCosine, cTexts, cCoherence, cFiles,
                   matchVars, verifyVars, httpVars, threadVars>>

\* json.dump(report) into claim_report_<id>.json
WriteJsonReport ==
    /\ cpc = "json"
    /\ cFiles' = cFiles \cup {"claim_report.json"}
    /\ cpc' = "markdown"
    /\ UNCHANGED <<cPaths, cCosine, cTexts, cCoherence, cFraud,
                   matchVars, verifyVars, httpVars, threadVars>>

\* the markdown report reads the three keys of both results; a missing key
\* raises KeyError after the file was opened
WriteMarkdownReport ==
    /\ cpc = "markdown"
    /\ cFiles' = cFiles \cup {"claim_report.md"}
    /\ cpc' = IF CoherenceKeys \subseteq cCoherence.keys /\ FraudKeys \subseteq cFraud.keys
              THEN "returned" ELSE "KeyError"
    /\ UNCHANGED <<cPaths, cCosine, cTexts, cCoherence, cFraud,
                   matchVars, verifyVars, httpVars, threadVars>>

(***************************************************************************)
(* SpecThreads: process_claim requests served by two threads of the        *)
(* server.  Each thread runs lines 42-60 of process_claim for its claim:   *)
(* the two feed adapters (each writes its dump file, then returns), the    *)
(* report, the insurance summary, and the two files written under fixed    *)
(* names.  The rest of process_claim touches none of these files.          *)
(***************************************************************************)
Threads == {1, 2}

\* most requests one thread takes
MaxRuns == 2

\* the loops of the adapters from entry i on: the disasters collected and
\* the exception that ended the loop ("none": it ran to its end)
RECURSIVE NasaLoop(_, _, _, _, _)
NasaLoop(events, i, disasters, place, date) ==
    IF i > Len(events) THEN [disasters |-> disasters, exc |-> "none"]
    ELSE LET r == NasaLoopBody(disasters, events[i], place, date, RadiusDefault)
         IN  IF r.exc # "none" THEN r
             ELSE NasaLoop(events, i + 1, r.disasters, place, date)

RECURSIVE ReliefLoop(_, _, _, _, _)
ReliefLoop(items, i, disasters, place, date) ==
    IF i > Len(items) THEN [disasters |-> disasters, exc |-> "none"]
    ELSE LET r == IF items[i].fetch = "ok"
                  THEN ReliefLoopBody(disasters, items[i].disaster, place, date,
                                      RadiusDefault)
                  ELSE [disasters |-> disasters, exc |-> "ConnectionError"]
         IN  IF r.exc # "none" THEN r
             ELSE ReliefLoop(items, i + 1, r.disasters, place, date)

\* _check_nasa_eonet as a function of the response: the disasters it
\* returns, and whether it got as far as writing its dump
CheckNasaEonet(resp, place, date) ==
    IF RequestException(resp.mode) # "none" \/ ~StatusIs200(resp)
    THEN [disasters |-> <<>>, dumped |-> FALSE]
    ELSE LET r == NasaLoop(resp.events, 1, <<>>, place, date)
         IN  [disasters |-> r.disasters, dumped |-> (r.exc = "none")]

\* _check_reliefweb as a function of the responses
CheckReliefweb(resp, place, date) ==
    IF RequestException(resp.mode) # "none" \/ ~StatusIs200(resp)
    THEN [disasters |-> <<>>, dumped |-> FALSE]
    ELSE LET r == ReliefLoop(resp.items, 1, <<>>, place, date)
         IN  [disasters |-> r.disasters, dumped |-> (r.exc = "none")]

\* verify_location_disaster as a function of its arguments and of the feed
\* responses it receives
VerifyLocationDisaster(place, date, eonet, relief) ==
    FillReport(EmptyReport(place, date),
               CombineDisasters(CheckNasaEonet(eonet, place, date).disasters,
                                CheckReliefweb(relief, place, date).disasters))

\* the requests the threads serve: the claim's place and date and the
\* answers of the two feeds at the time of the request
ThreadArgs ==
    {[place |-> "Mumbai", date |-> TargetNoon,
      eonet |-> [mode |-> "ok",
                 events |-> <<NasaEvent("entry", "Thane", EventNoonZ, TRUE, "Floods")>>],
      relief |-> [mode |-> "ok", items |-> <<>>]],
     [place |-> "Mumbai", date |-> TargetNoon,
      eonet |-> [mode |-> "transport_error", events |-> <<>>],
      relief |-> [mode |-> "ok",
                  items |-> <<[fetch |-> "ok",
                               disaster |-> ReliefEvent("entry", "Mumbai", EventNoonZ,
                                                        "Flood")]>>]],
     [place |-> "Origin", date |-> TargetNoon,
      eonet |-> [mode |-> "ok",
                 events |-> <<NasaEvent("entry", "Kota", EventNoonZ, TRUE, "Wildfires")>>],
      relief |-> [mode |-> "ok", items |-> <<>>]]}

NoArgs ==
    [place |-> "Origin", date |-> DateNone,
     eonet |-> [mode |-> "ok", events |-> <<>>],
     relief |-> [mode |-> "ok", items |-> <<>>]]

NoSummary == [claim_verifiable |-> FALSE, disaster_types |-> <<>>, disaster_sources |-> <<>>]

\* the request thread t is serving: each request is for a claim of its own
ClaimOf(t, run) == <<t, run>>
NoClaim == <<0, 0>>

\* a file that was not written yet, and a file as its last writer left it
NoFile(data) == [by |-> NoClaim, data |-> data]
FileOf(claim, data) == [by |-> claim, data |-> data]

NoFiles ==
    [nasa_eonet_disasters |-> NoFile(<<>>),
     reliefweb_disasters |-> NoFile(<<>>),
     disaster_verification |-> NoFile(EmptyReport("Origin", DateNone)),
     insurance_report |-> NoFile(NoSummary)]

ThreadsIdle ==
    /\ tpc = [t \in Threads |-> "idle"]
    /\ tRun = [t \in Threads |-> 0]
    /\ tArgs = [t \in Threads |-> NoArgs]
    /\ tEonet = [t \in Threads |-> <<>>]
    /\ tRelief = [t \in Threads |-> <<>>]
    /\ tResult = [t \in Threads |-> EmptyReport("Origin", DateNone)]
    /\ tInsurance = [t \in Threads |-> NoSummary]
    /\ files = NoFiles

\* _check_nasa_eonet up to the end of its try block: the request, the loop
\* and json.dump(nasa_eonet_disasters) when the loop ran to its end
ThreadCheckNasaEonet(t) ==
    /\ tpc[t] = "eonet"
    /\ LET a == tArgs[t]
           r == CheckNasaEonet(a.eonet, a.place, a.date)
       IN  /\ tEonet' = [tEonet EXCEPT ![t] = r.disasters]
           /\ files' = IF r.dumped
                       THEN [files EXCEPT !.nasa_eonet_disasters =
                                FileOf(ClaimOf(t, tRun[t]), a.eonet.events)]
                       ELSE files
    /\ tpc' = [tpc EXCEPT ![t] = "eonet_return"]
    /\ UNCHANGED <<tRun, tArgs, tRelief, tResult, tInsurance,
                   matchVars, verifyVars, httpVars, coherVars>>

\* an adapter that returns the matches of the events it reads back from the
\* dump file
ThreadEonetReturnFromDump(t) ==
    /\ tpc[t] = "eonet_return"
    /\ tEonet' = [tEonet EXCEPT ![t] =
                    NasaLoop(files.nasa_eonet_disasters.data, 1, <<>>, tArgs[t].place,
                             tArgs[t].date).disasters]
    /\ tpc' = [tpc EXCEPT ![t] = "relief"]
    /\ UNCHANGED <<tRun, tArgs, tRelief, tResult, tInsurance, files,
                   matchVars, verifyVars, httpVars, coherVars>>

\* return disasters: the list the call built
ThreadEonetReturn(t) ==
    /\ tpc[t] = "eonet_return"
    /\ tpc' = [tpc EXCEPT ![t] = "relief"]
    /\ UNCHANGED <<tRun, tArgs, tEonet, tRelief, tResult, tInsurance, files,
                   matchVars, verifyVars, httpVars, coherVars>>

\* _check_reliefweb up to the end of its try block
ThreadCheckReliefweb(t) ==
    /\ tpc[t] = "relief"
    /\ LET a == tArgs[t]
           r == CheckReliefweb(a.relief, a.place, a.date)
       IN  /\ tRelief' = [tRelief EXCEPT ![t] = r.disasters]
           /\ files' = IF r.dumped
                       THEN [files EXCEPT !.reliefweb_disasters =
                                FileOf(ClaimOf(t, tRun[t]), a.relief.items)]
                       ELSE files
    /\ tpc' = [tpc EXCEPT ![t] = "relief_return"]
    /\ UNCHANGED <<tRun, tArgs, tEonet, tResult, tInsurance,
                   matchVars, verifyVars, httpVars, coherVars>>

\* return disasters, then the report is filled and returned to process_claim
ThreadVerifyReturn(t) ==
    /\ tpc[t] = "relief_return"
    /\ tResult' = [tResult EXCEPT ![t] =
                     FillReport(EmptyReport(tArgs[t].place, tArgs[t].date),
                                CombineDisasters(tEonet[t], tRelief[t]))]
    /\ tpc' = [tpc EXCEPT ![t] = "insurance"]
    /\ UNCHANGED <<tRun, tArgs, tEonet, tRelief, tInsurance, files,
                   matchVars, verifyVars, httpVars, coherVars>>

\* insurance_report = generate_insurance_report(verification_result)
ThreadGenerateInsurance(t) ==
    /\ tpc[t] = "insurance"
    /\ \E insurance_report \in GenerateInsuranceReport(tResult[t]) :
          tInsurance' = [tInsurance EXCEPT ![t] = insurance_report]
    /\ tpc' = [tpc EXCEPT ![t] = "write_verification"]
    /\ UNCHANGED <<tRun, tArgs, tEonet, tRelief, tResult, files,
                   matchVars, verifyVars, httpVars, coherVars>>

\* json.dump(verification_result) into disaster_verification.json
ThreadWriteVerification(t) ==
    /\ tpc[t] = "write_verification"
    /\ files' = [files EXCEPT !.disaster_verification =
                    FileOf(ClaimOf(t, tRun[t]), tResult[t])]
    /\ tpc' = [tpc EXCEPT ![t] = "write_insurance"]
    /\ UNCHANGED <<tRun, tArgs, tEonet, tRelief, tResult, tInsurance,
                   matchVars, verifyVars, httpVars, coherVars>>

\* json.dump(insurance_report) into insurance_report.json
ThreadWriteInsurance(t) ==
    /\ tpc[t] = "write_insurance"
    /\ files' = [files EXCEPT !.insurance_report =
                    FileOf(ClaimOf(t, tRun[t]), tInsurance[t])]
    /\ tpc' = [tpc EXCEPT ![t] = "done"]
    /\ UNCHANGED <<tRun, tArgs, tEonet, tRelief, tResult, tInsurance,
                   matchVars, verifyVars, httpVars, coherVars>>

\* the thread takes its next request: a new service object, new arguments
ThreadNextRequest(t) ==
    /\ tpc[t] = "done"
    /\ tRun[t] < MaxRuns
    /\ tRun' = [tRun EXCEPT ![t] = tRun[t] + 1]
    /\ \E a \in ThreadArgs : tArgs' = [tArgs EXCEPT ![t] = a]
    /\ tEonet' = [tEonet EXCEPT ![t] = <<>>]
    /\ tRelief' = [tRelief EXCEPT ![t] = <<>>]
    /\ tResult' = [tResult EXCEPT ![t] = EmptyReport("Origin", DateNone)]
    /\ tInsurance' = [tInsurance EXCEPT ![t] = NoSummary]
    /\ tpc' = [tpc EXCEPT ![t] = "eonet"]
    /\ UNCHANGED <<files, matchVars, verifyVars, httpVars, coherVars>>

InitMatch == MatchIdle /\ VerifyIdle /\ HttpIdle /\ CoherIdle /\ ThreadsIdle

NextMatch == CallIsEventRelevant \/ CallIsReliefwebEventRelevant \/ CallIsDateClose

SpecMatch == InitMatch /\ [][NextMatch]_vars

InitVerify ==
    /\ MatchIdle
    /\ HttpIdle
    /\ CoherIdle
    /\ ThreadsIdle
    /\ vpc = "start"
    /\ \E t \in VerifyTargets :
          vPlace = t[1] /\ vExif = t[2] /\ vDate = GetTimestamp(t[2])
    /\ eonetResp \in EonetResponses
    /\ reliefResp \in ReliefResponses
    /\ vIdx = 0
    /\ eonetDisasters = <<>>
    /\ reliefDisasters = <<>>
    /\ report = EmptyReport("Origin", DateNone)
    /\ vRaised = FALSE
    /\ requestLog = <<>>
    /\ inFlight = 0
    /\ dumps = {}
    /\ summaries = <<>>

NextVerify ==
    \/ VerifyStart
    \/ EonetRequest
    \/ EonetResponse
    \/ EonetEvent
    \/ EonetDump
    \/ ReliefRequest
    \/ ReliefResponse
    \/ ReliefDetailRequest
    \/ ReliefItem
    \/ ReliefDump
    \/ VerifyReturn
    \/ GenerateInsurance

SpecVerify == InitVerify /\ [][NextVerify]_vars

Init == MatchIdle /\ VerifyIdle /\ HttpIdle /\ CoherIdle /\ ThreadsIdle

Next ==
    \/ SubmitForm
    \/ ReceiveProcessClaim
    \/ FindClaim
    \/ ExtractExif
    \/ Geocode
    \/ VerifyClaim
    \/ IdentifyCrop
    \/ ReturnProcessed
    \/ ServerError
    \/ RequestFile
    \/ NextRequest

Spec == Init /\ [][Next]_vars

InitCoherence ==
    /\ MatchIdle
    /\ VerifyIdle
    /\ HttpIdle
    /\ ThreadsIdle
    /\ cpc = "start"
    /\ cPaths \in UNION {[1 .. n -> ExtractedTexts] : n \in 0 .. MaxDocuments}
    /\ cCosine \in 0 .. SimScale
    /\ cTexts = <<>>
    /\ cCoherence = EmptyMapping
    /\ cFraud = NoFraud
    /\ cFiles = {}

NextCoherence ==
    \/ ExtractTexts
    \/ AnalyzeCoherence
    \/ DetectPotentialFraud
    \/ WriteJsonReport
    \/ WriteMarkdownReport

SpecCoherence == InitCoherence /\ [][NextCoherence]_vars

InitThreads ==
    /\ MatchIdle
    /\ VerifyIdle
    /\ HttpIdle
    /\ CoherIdle
    /\ tpc = [t \in Threads |-> "eonet"]
    /\ tRun = [t \in Threads |-> 1]
    /\ tArgs \in [Threads -> ThreadArgs]
    /\ tEonet = [t \in Threads |-> <<>>]
    /\ tRelief = [t \in Threads |-> <<>>]
    /\ tResult = [t \in Threads |-> EmptyReport("Origin", DateNone)]
    /\ tInsurance = [t \in Threads |-> NoSummary]
    /\ files = NoFiles

NextThreads ==
    \E t \in Threads :
        \/ ThreadCheckNasaEonet(t)
        \/ ThreadEonetReturn(t)
        \/ ThreadCheckReliefweb(t)
        \/ ThreadVerifyReturn(t)
        \/ ThreadGenerateInsurance(t)
        \/ ThreadWriteVerification(t)
        \/ ThreadWriteInsurance(t)
        \/ ThreadNextRequest(t)

SpecThreads == InitThreads /\ [][NextThreads]_vars

(***************************************************************************)
(* Properties of the matcher (SpecMatch)                                   *)
(***************************************************************************)
MatcherCalled == mFn \in {"_is_event_relevant", "_is_reliefweb_event_relevant"}

\* the date string of the event of the call
CallEventDate == IF mFn = "_is_reliefweb_event_relevant" THEN mRelief.date ELSE mNasa.date

\* the event of the call carries a point coordinate
CallHasCoordinate ==
    \/ mFn = "_is_event_relevant" /\ mNasa.geometry = "entry" /\ mNasa.coordinates \in Places
    \/ mFn = "_is_reliefweb_event_relevant" /\ mRelief.country = "entry"
          /\ mRelief.location \in Places

\* the event of the call carries no coordinates at all
CallLacksCoordinates ==
    \/ mFn = "_is_event_relevant"
          /\ (mNasa.geometry = "none" \/ mNasa.coordinates = "absent")
    \/ mFn = "_is_reliefweb_event_relevant"
          /\ (mRelief.country = "absent" \/ mRelief.location \in {"absent", "partial"})

\* the event of the call is malformed: a geometry that is not a point, or an
\* empty country list
CallMalformed ==
    \/ mFn = "_is_event_relevant" /\ mNasa.geometry = "entry"
          /\ mNasa.coordinates = "polygon"
    \/ mFn = "_is_reliefweb_event_relevant" /\ mRelief.country = "empty"

CallEventPlace ==
    IF mFn = "_is_reliefweb_event_relevant" THEN mRelief.location ELSE mNasa.coordinates

CallWithinRadius ==
    CallHasCoordinate /\ haversine_distance(mPlace, CallEventPlace) <= mRadius

CallDatesParse == CallEventDate.kind = "iso" /\ mDate.kind = "iso"

\* event time minus target time on the clock, in time units
CallWallDiff == CallEventDate.wall - mDate.wall

\* C2: the matcher returns true exactly when the event's coordinate is
\* within radius_km of the target and abs(d) <= 30, d the whole-day
\* component (floor) of event timestamp minus target timestamp; in every
\* other case it returns false.  Stated for the events that are well formed.
C2_RelevantIffNearAndRecent ==
    (MatcherCalled /\ ~CallMalformed) =>
        mResult = IF /\ CallWithinRadius
                     /\ CallDatesParse
                     /\ Abs(CallWallDiff \div UnitsPerDay) <= DaysThresholdDefault
                  THEN "True" ELSE "False"

\* C6: an event within radius_km whose timestamp differs from the target
\* date by more than 30 x 24 hours, earlier or later, is not relevant.
C6_BeyondThirtyDaysRejected ==
    (/\ CallWithinRadius
     /\ CallDatesParse
     /\ Abs(CallWallDiff) > DaysThresholdDefault * UnitsPerDay)
        => mResult = "False"

\* C7: an event farther than radius_km from the target is not relevant,
\* whatever the two dates are (equal, far apart, missing or unparsable).
C7_FarEventRejected ==
    (CallHasCoordinate /\ haversine_distance(mPlace, CallEventPlace) > mRadius)
        => mResult = "False"

C7_Witness ==
    /\ mFn = "_is_event_relevant"
    /\ mPlace = "Mumbai"
    /\ mNasa.coordinates = "Kota"
    /\ mRadius = RadiusDefault
    /\ CallDatesParse
    /\ CallWallDiff = 0
    /\ mResult = "False"

\* C8: an event at the target coordinate whose date is the target's
\* calendar date is relevant for every positive radius_km.
C8_SamePlaceSameDayRelevant ==
    (/\ CallHasCoordinate
     /\ CallEventPlace = mPlace
     /\ CallDatesParse
     /\ CallEventDate.wall \div UnitsPerDay = mDate.wall \div UnitsPerDay
     /\ mRadius > 0)
        => mResult = "True"

C8_Witness ==
    /\ mFn = "_is_event_relevant"
    /\ mNasa.geometry = "entry"
    /\ mNasa.coordinates = mPlace
    /\ mPlace = "Mumbai"
    /\ CallDatesParse
    /\ mNasa.date.tz = "Z"
    /\ mDate.tz = "naive"
    /\ mNasa.date.wall \div UnitsPerDay = mDate.wall \div UnitsPerDay
    /\ mNasa.date.wall # mDate.wall
    /\ mRadius = 1
    /\ mResult = "True"

\* C9: an event that carries no coordinates (a NASA EONET event without
\* geometry or without a coordinates field in its first geometry entry, a
\* ReliefWeb disaster without a country location or with one that lacks lat
\* or lon) is never relevant and causes no error: the matcher returns false.
C9_NoCoordinatesNeverRelevant == CallLacksCoordinates => mResult = "False"

\* C10: when the event date or the target date is missing or is not an
\* ISO-8601 date-time, the date comparison returns false and raises nothing,
\* so an event with coordinates is not relevant.
C10_BadDateFailsClosed ==
    (/\ mFn = "_is_date_close" \/ CallHasCoordinate
     /\ ~CallDatesParse)
        => mResult = "False"

C10_Witness ==
    /\ mFn = "_is_date_close"
    /\ mNasa.date = DateBad
    /\ mDate.kind = "iso"
    /\ mResult = "False"

(***************************************************************************)
(* Properties of verify_location_disaster (SpecVerify)                     *)
(***************************************************************************)
EonetAccepts(event) == IsEventRelevant(event, vPlace, vDate, RadiusDefault) = "True"

ReliefAccepts(item) ==
    IsReliefwebEventRelevant(item.disaster, vPlace, vDate, RadiusDefault) = "True"

\* the entries of the events of the payload the matcher accepts, in order
EonetMatches ==
    LET accepted == SelectSeq(eonetResp.events, EonetAccepts)
    IN  [i \in 1 .. Len(accepted) |-> NasaEntry(accepted[i])]

ReliefMatches ==
    LET accepted == SelectSeq(reliefResp.items, ReliefAccepts)
    IN  [i \in 1 .. Len(accepted) |-> ReliefEntry(accepted[i].disaster)]

\* the feed answered and no step of its adapter ended in an exception
EonetSucceeds ==
    /\ eonetResp.mode = "ok"
    /\ \A i \in 1 .. Len(eonetResp.events) :
          LET event == eonetResp.events[i]
              r == IsEventRelevant(event, vPlace, vDate, RadiusDefault)
          IN  r # "Raise" /\ (r = "True" => event.url)

ReliefSucceeds ==
    /\ reliefResp.mode = "ok"
    /\ \A i \in 1 .. Len(reliefResp.items) :
          LET item == reliefResp.items[i]
          IN  /\ item.fetch = "ok"
              /\ IsReliefwebEventRelevant(item.disaster, vPlace, vDate, RadiusDefault)
                    # "Raise"

\* a request to ReliefWeb raised: the list request or a detail request
ReliefTransportError ==
    \/ reliefResp.mode = "transport_error"
    \/ \E i \in 1 .. Len(reliefResp.items) : reliefResp.items[i].fetch = "fail"

FromNasa(entry) == entry.source = "NASA EONET"

\* C3: a transport error of one feed does not reach the caller of
\* verify_location_disaster, and the report holds exactly the matches of the
\* other feed when that one succeeded: ReliefWeb's when NASA EONET failed,
\* NASA EONET's (unchanged, first) when a ReliefWeb request failed.
C3_FeedFailureIsolated ==
    /\ (eonetResp.mode = "transport_error" \/ ReliefTransportError)
          => (vpc # "raised" /\ ~vRaised)
    /\ (vpc = "done" /\ eonetResp.mode = "transport_error" /\ ReliefSucceeds)
          => report.disasters = ReliefMatches
    /\ (vpc = "done" /\ ReliefTransportError /\ EonetSucceeds)
          => /\ SelectSeq(report.disasters, FromNasa) = EonetMatches
             /\ SubSeq(report.disasters, 1, Len(EonetMatches)) = EonetMatches
             /\ reliefResp.mode = "transport_error" => report.disasters = EonetMatches

C3_Witness ==
    /\ vpc = "done"
    /\ eonetResp.mode = "transport_error"
    /\ ReliefSucceeds
    /\ Len(report.disasters) = MaxEvents
    /\ report.disaster_occurred

\* C4: every report verify_location_disaster returns has disaster_occurred
\* = (len(disasters) > 0); when every feed returns zero events it has
\* disaster_occurred = false and disasters = [].
C4_OccurredIffDisasters ==
    vpc = "done" =>
        /\ report.disaster_occurred = (Len(report.disasters) > 0)
        /\ (/\ eonetResp.mode = "ok" => eonetResp.events = <<>>
            /\ reliefResp.mode = "ok" => reliefResp.items = <<>>)
              => (~report.disaster_occurred /\ report.disasters = <<>>)

C4_Witness ==
    /\ vpc = "done"
    /\ eonetResp = [mode |-> "ok", events |-> <<>>]
    /\ reliefResp = [mode |-> "ok", items |-> <<>>]
    /\ ~report.disaster_occurred
    /\ report.disasters = <<>>

C1_StatusContract ==
    (rpc = "done" /\ rBody # "null") =>
        /\ rClaim = NoDoc => rStatus = 404
        /\ (rClaim # NoDoc /\ rClaim.receiptImage \in {"absent", "empty", "nogps"})
              => rStatus = 400
        /\ rStatus = 200 => (rGps /\ rProcessed)

(***************************************************************************)
(* Time zones in the date comparison (SpecMatch)                           *)
(***************************************************************************)
DateCloseCalled == mFn = "_is_date_close" /\ CallDatesParse

\* the event and target datetimes as fromisoformat gave them
CallEventDatetime == fromisoformat(ReplaceZ(mNasa.date))
CallTargetDatetime == fromisoformat(mDate)

\* exactly one of the two timestamps of the call is timezone-aware
CallOneAware == (CallEventDatetime.tz = "naive") # (CallTargetDatetime.tz = "naive")

\* the zone of the aware one of the two
CallAwareZone ==
    IF CallEventDatetime.tz = "naive" THEN CallTargetDatetime.tz ELSE CallEventDatetime.tz

\* the answer a comparison of the wall-clock values gives
WallClockAnswer ==
    IF Abs(TimedeltaDays(CallWallDiff)) <= DaysThresholdDefault THEN "True" ELSE "False"

\* C19 as stated: when exactly one of the two timestamps is timezone-aware,
\* the naive one is given the aware one's zone before the subtraction and
\* the aware one keeps its zone, whichever of event and target is the aware
\* one.
C19_NaiveTakesAwareZone ==
    (DateCloseCalled /\ CallOneAware) =>
        /\ mSub.ok
        /\ mSub.event.tz = CallAwareZone
        /\ mSub.target.tz = CallAwareZone

\* C19, amended: when exactly one of the two timestamps is timezone-aware,
\* only the target is changed before the subtraction: a naive target is
\* given the aware event's zone, an aware target loses its zone when the
\* event is naive; the event is subtracted as parsed, the target keeps its
\* wall-clock fields, and the answer is that of the wall-clock values.
C19_MixedZonesTargetChanged ==
    (DateCloseCalled /\ CallOneAware) =>
        /\ mSub.ok
        /\ mSub.event = CallEventDatetime
        /\ mSub.target.wall = CallTargetDatetime.wall
        /\ CallTargetDatetime.tz = "naive" => mSub.target.tz = CallAwareZone
        /\ CallEventDatetime.tz = "naive" => mSub.target.tz = "naive"
        /\ mResult = WallClockAnswer

\* an aware target compared with a naive event
C19_Witness ==
    /\ DateCloseCalled
    /\ mNasa.date.tz = "naive"
    /\ mDate.tz = "plus"
    /\ mSub.ok
    /\ mSub.target.tz = "naive"
    /\ mResult = "True"

\* C20: the target is always the one that is changed: for each of the four
\* naive/aware combinations of event and target the target keeps its
\* wall-clock fields and takes the event's tzinfo, no conversion of the
\* instant is made, the event is never altered, and so the day difference
\* is that of the event and the target's wall-clock time read in the
\* event's zone.
C20_TargetAlwaysCoerced ==
    DateCloseCalled =>
        /\ mSub.ok
        /\ mSub.event = CallEventDatetime
        /\ mSub.target.wall = CallTargetDatetime.wall
        /\ mSub.target.tz = CallEventDatetime.tz
        /\ mResult = WallClockAnswer

\* both aware, in different zones: the instants are more than 30 days
\* apart, the wall-clock values are not
C20_Witness ==
    /\ DateCloseCalled
    /\ mNasa.date.tz = "plus"
    /\ mDate.tz = "utc"
    /\ mSub.target.tz = "plus"
    /\ mResult = "True"
    /\ Abs(TimedeltaDays(CallWallDiff - TzPlus)) > DaysThresholdDefault

(***************************************************************************)
(* Failures inside the feed adapters (SpecVerify)                          *)
(***************************************************************************)
FromReliefWeb(entry) == entry.source = "ReliefWeb"

Count(seq, x) == Cardinality({i \in 1 .. Len(seq) : seq[i] = x})

IsPrefix(p, seq) == Len(p) <= Len(seq) /\ SubSeq(seq, 1, Len(p)) = p

\* the event at position i of the NASA EONET payload ends the loop body in an
\* exception: the matcher raises, or the accepted event has no source url
EonetEventFails(i) ==
    LET event == eonetResp.events[i]
        r == IsEventRelevant(event, vPlace, vDate, RadiusDefault)
    IN  r = "Raise" \/ (r = "True" /\ ~event.url)

ReliefItemFails(i) ==
    LET item == reliefResp.items[i]
    IN  \/ item.fetch = "fail"
        \/ IsReliefwebEventRelevant(item.disaster, vPlace, vDate, RadiusDefault) = "Raise"

\* a transport or parsing error occurs inside the adapter of the feed
EonetErrors ==
    \/ eonetResp.mode \in {"transport_error", "malformed"}
    \/ eonetResp.mode = "ok" /\ \E i \in 1 .. Len(eonetResp.events) : EonetEventFails(i)

ReliefErrors ==
    \/ reliefResp.mode \in {"transport_error", "malformed"}
    \/ reliefResp.mode = "ok" /\ \E i \in 1 .. Len(reliefResp.items) : ReliefItemFails(i)

\* C11: when a transport or parsing error occurs inside a feed adapter, also
\* one raised at the k-th event after earlier events were accepted, the feed
\* contributes no entry to disasters, the error does not reach the caller,
\* and the feed's query is not issued a second time.
C11_FailedFeedContributesNothing ==
    /\ (EonetErrors \/ ReliefErrors) => (vpc # "raised" /\ ~vRaised)
    /\ (vpc = "done" /\ EonetErrors) => SelectSeq(report.disasters, FromNasa) = <<>>
    /\ (vpc = "done" /\ ReliefErrors) => SelectSeq(report.disasters, FromReliefWeb) = <<>>
    /\ Count(requestLog, "eonet") <= 1
    /\ Count(requestLog, "reliefweb") <= 1

C13_VerifyAlwaysReturns ==
    /\ vpc # "raised" /\ ~vRaised
    /\ vpc # "done" => ENABLED NextVerify
    /\ vpc = "done"
          => /\ report.location = vPlace /\ report.date = vDate
             /\ report.disasters = eonetDisasters \o reliefDisasters
             /\ IsPrefix(eonetDisasters, EonetMatches)
             /\ IsPrefix(reliefDisasters, ReliefMatches)

C13_Witness ==
    /\ vpc = "done"
    /\ vDate = DateNone
    /\ eonetResp.mode = "malformed"
    /\ ReliefErrors
    /\ reliefResp.mode = "ok"
    /\ ~report.disaster_occurred

(***************************************************************************)
(* generate_insurance_report on the report of verify_location_disaster     *)
(* (SpecVerify)                                                            *)
(***************************************************************************)
SetOf(seq) == {seq[i] : i \in 1 .. Len(seq)}

C16_TypesPerMatchSourcesDistinct ==
    \A i \in 1 .. Len(summaries) :
        LET types == summaries[i].disaster_types
            sources == summaries[i].disaster_sources
        IN  /\ Len(types) = Len(report.disasters)
            /\ \A k \in 1 .. Len(types) : types[k] = report.disasters[k].type
            /\ SetOf(sources) = {report.disasters[k].source : k \in 1 .. Len(report.disasters)}
            /\ Cardinality(SetOf(sources)) = Len(sources)

\* two matches of one source, both of unknown type
C16_Witness ==
    /\ Len(summaries) = 1
    /\ summaries[1].disaster_types = <<"Unknown", "Unknown">>
    /\ Len(summaries[1].disaster_sources) = 1
    /\ Len(report.disasters) = 2

\* C17: generate_insurance_report is a pure function of the report: a call
\* leaves the report unchanged, writes no file and issues no request, and
\* two calls on the same report give the same claim_verifiable, the same
\* disaster_types sequence and the same set of disaster_sources.
C17_InsuranceReportPure ==
    [][summaries' # summaries =>
          /\ report' = report
          /\ dumps' = dumps
          /\ requestLog' = requestLog
          /\ \A i \in 1 .. Len(summaries) :
                LET first == summaries[i]
                    last == summaries'[Len(summaries')]
                IN  /\ last.claim_verifiable = first.claim_verifiable
                    /\ last.disaster_types = first.disaster_types
                    /\ SetOf(last.disaster_sources) = SetOf(first.disaster_sources)]_vars

C17_Witness ==
    /\ Len(summaries) = 2
    /\ summaries[1].claim_verifiable
    /\ Len(summaries[1].disaster_types) = MaxEvents + 1
    /\ Len(summaries[1].disaster_sources) = 2
    /\ requestLog # <<>>
    /\ dumps # {}

(***************************************************************************)
(* Outbound requests of verify_location_disaster (SpecVerify)              *)
(***************************************************************************)
\* _check_nasa_eonet has returned
EonetReturned ==
    vpc \in {"relief_request", "relief_await", "relief_loop", "relief_detail_await",
             "combine", "done"}

\* _check_reliefweb has returned
ReliefReturned == vpc \in {"combine", "done"}

ReliefRequests == Count(requestLog, "reliefweb") + Count(requestLog, "reliefweb_detail")

\* C22: a call of a feed adapter issues exactly one outbound HTTP request,
\* whatever the number of events the feed returns.
C22_OneRequestPerAdapter ==
    /\ EonetReturned => Count(requestLog, "eonet") = 1
    /\ ReliefReturned => ReliefRequests = 1

C25_UnparsableDateNeverMatches ==
    /\ vpc # "idle" => vDate = (IF vExif.kind = "absent" THEN DateNone ELSE vExif.value)
    /\ (vpc = "done" /\ ~fromisoformat(vDate).ok)
          => /\ report.date = vDate
             /\ report.disaster_occurred = FALSE
             /\ report.disasters = <<>>

\* a photo in the EXIF layout was verified against feeds holding an event at
\* the claim's place on the claim's day
C25_Witness ==
    /\ vpc = "done"
    /\ vExif = ExifTag("value", DateBad)
    /\ eonetResp.mode = "ok"
    /\ \E i \in 1 .. Len(eonetResp.events) :
          IsEventRelevant(eonetResp.events[i], vPlace, TargetNoon, RadiusDefault) = "True"
    /\ report.disasters = <<>>

(***************************************************************************)
(* What a processed claim gives back (Spec)                                *)
(***************************************************************************)
\* C14: a successful processing of a claim returns to its caller the
\* VerificationReport and the InsuranceSummary computed for that claim: the
\* body of the 200 response carries both.
C14_BodyCarriesReports ==
    (rpc = "done" /\ rStatus = 200 /\ rReportFor # "") =>
        /\ rMessage.verification_result = rReportFor
        /\ rMessage.insurance_report = rReportFor

\* C18: get_location_name gives a string for every behaviour of the lookup
\* (success, non-200, transport failure, malformed body); no exception
\* leaves it.
C18_GeocoderNeverRaises == rLocation # "Raise"

\* C21: POST /process-claim/{claim_id} processes the claim whose claimNumber
\* is the claim_id of the URL path, whatever the JSON body holds, a
\* claimNumber naming another claim included.
C21_UrlNamesTheClaim ==
    (rpc \notin {"idle", "find"} /\ rBody # "null" /\ rClaim # NoDoc) =>
        rClaim.claimNumber = rUrlId

\* C26: for every stored claim that has a receiptImage process_claim
\* returns a (message, status) pair and does not raise: not when the image
\* has no EXIF block, not when no Gemini API key is configured, not when
\* identify_crop fails.
C26_ProcessClaimNeverRaises ==
    (rClaim # NoDoc /\ rClaim.receiptImage \notin {"absent", "empty"}) =>
        (rpc # "error" /\ rStatus # 500)

\* C29: when process_claim answers 404 or 400 it has written no file and
\* issued no request, and a claim that is not found is answered 404: the
\* not-found check comes before the missing-image check.
C29_EarlyReturnsDoNothing ==
    /\ (rpc = "done" /\ rStatus \in {400, 404}) => rEffects = {}
    /\ (rpc = "done" /\ rBody # "null" /\ rClaim = NoDoc) => rStatus = 404
    /\ (rpc = "done" /\ rStatus = 400 /\ rBody # "null")
          => (rClaim # NoDoc /\ rClaim.receiptImage \in {"absent", "empty"})

\* a stored claim without image is answered 400 while another stored claim
\* could have been processed
C29_Witness ==
    /\ rpc = "done"
    /\ rStatus = 400
    /\ rClaim # NoDoc
    /\ rClaim.receiptImage = "absent"
    /\ rEffects = {}
    /\ \E i \in 1 .. Len(store) : store[i].receiptImage = "gps"

(***************************************************************************)
(* Stored files and their URLs (Spec)                                      *)
(***************************************************************************)
\* C28: after any sequence of submit_form calls, every file URL get_claims
\* lists for a claim is answered by get_file with 200 and the blob stored
\* under that field (and index) of that same claim; a list field requested
\* without an index or with an index outside 0..len-1 is answered 404.
C28_ListedUrlGivesOwnBlob ==
    rpc = "file_done" =>
        /\ rFileReq.listedFor # 0
              => /\ rStatus = 200
                 /\ rFileBody = Blob(rFileReq.listedFor, rFileReq.url.fieldName,
                                     rFileReq.url.index)
        /\ (/\ rFileReq.url.fieldName = "beforeIncidentImages"
            /\ FindOne(store, rFileReq.url.claimNumber).beforeIncidentImages > 0
            /\ \/ rFileReq.url.index = NoIndex
               \/ rFileReq.url.index >= FindOne(store, rFileReq.url.claimNumber).beforeIncidentImages)
              => rStatus = 404

(***************************************************************************)
(* The coherence section of a claim report (SpecCoherence)                 *)
(***************************************************************************)
\* C30: for every list of document texts and every average similarity in
\* [0, 1], 1.0 included, analyze_text_coherence returns a mapping with
\* coherence_score, consistency_level and confidence, and
\* generate_claim_report writes its coherence section without failing.
C30_CoherenceAlwaysComplete ==
    /\ cpc \in {"fraud", "json", "markdown", "returned", "KeyError"}
          => CoherenceKeys \subseteq cCoherence.keys
    /\ cpc # "KeyError"

(***************************************************************************)
(* Requests served concurrently (SpecThreads)                              *)
(***************************************************************************)
ThreadVerified(t) ==
    tpc[t] \in {"insurance", "write_verification", "write_insurance", "done"}

\* C24: the report an invocation of verify_location_disaster returns is a
\* function of its arguments and of the feed responses it received: no
\* earlier invocation and no invocation in another thread changes a field
\* of it, although all of them write the same two dump files.
C24_ReportOfOwnInputsOnly ==
    \A t \in Threads :
        ThreadVerified(t)
            => tResult[t] = VerifyLocationDisaster(tArgs[t].place, tArgs[t].date,
                                                   tArgs[t].eonet, tArgs[t].relief)

\* a thread has its report although another thread, serving other
\* arguments, overwrote the NASA dump while the first was inside its adapter
\* call, and an earlier request had written the dumps before
C24_Witness ==
    \E t, u \in Threads :
        /\ t # u
        /\ ThreadVerified(t)
        /\ tRun[t] = 2
        /\ tArgs[t] # tArgs[u]
        /\ tResult[t].disaster_occurred
        /\ files.nasa_eonet_disasters.by = ClaimOf(u, tRun[u])
        /\ files.nasa_eonet_disasters.data # tArgs[t].eonet.events

\* C27: when two process_claim requests for different claims ran
\* concurrently and both have finished, disaster_verification.json and
\* insurance_report.json describe the same claim: the summary on disk is
\* the projection of the verification result on disk.
C27_ArtifactsOfOneClaim ==
    (\A t \in Threads : tpc[t] = "done")
        => /\ files.insurance_report.by = files.disaster_verification.by
           /\ files.insurance_report.data
                 \in GenerateInsuranceReport(files.disaster_verification.data)

====
